---- MODULE Spec2Model ----
(***************************************************************************)
(* A model of the hierarchical key-value Store (src/unnamed/part_000).     *)
(*                                                                         *)
(* JavaScript values are records [t, v]: t is the kind of value and v its  *)
(* payload (a number, an index into the string table, a producer id or a   *)
(* heap address).  Objects, arrays and Store instances live in the heap h, *)
(* a sequence of records addressed by position, so that two references to  *)
(* one object alias as they do in the program.  Every method of the class  *)
(* is an operator from a heap (and its arguments) to a result record       *)
(* [h, out, ret, log]: the heap after the call, how the call ended ("ok",  *)
(* or the error it threw), the value returned and the producers invoked.   *)
(***************************************************************************)
EXTENDS Integers, Sequences, FiniteSets, TLC

\* h: the heap; permissions: the registry; last: the latest call and how it
\* ended; held: what the client keeps of an earlier entries() call; nops:
\* the number of steps made; defined: the classes whose definition has run;
\* stack: the invocations of Store methods in progress, the innermost last,
\* and steps: the steps the call in progress has taken (both are used by the
\* specification that follows one call step by step)
VARIABLES h, permissions, last, held, nops, defined, stack, steps

vars == <<h, permissions, last, held, nops, defined, stack, steps>>

----------------------------------------------------------------------------
(* Values *)

V(t, v) == [t |-> t, v |-> v]

Undef == V("undef", 0)

Null == V("null", 0)

Num(n) == V("num", n)

Bool(b) == V("bool", IF b THEN 1 ELSE 0)

\* strings that occur as values, by index
StrTable == <<"", "s", "rw", "r", "w", "none">>

Str(s) == V("str", CHOOSE i \in 1..Len(StrTable) : StrTable[i] = s)

Fn(i) == V("fn", i)

Ref(a) == V("ref", a)

\* an object or array literal of the caller (never stored by reference
\* unless empty, in which case the action allocates it in the heap)
Lit(i) == V("lit", i)

\* JavaScript's ToBoolean, as used by `!currentValue`, `!valueToRead`
Truthy(val) ==
  CASE val.t = "undef" -> FALSE
    [] val.t = "null" -> FALSE
    [] val.t = "bool" -> val.v = 1
    [] val.t = "num" -> val.v # 0
    [] val.t = "str" -> StrTable[val.v] # ""
    [] OTHER -> TRUE

\* JavaScript's typeof
TypeOf(val) ==
  CASE val.t = "undef" -> "undefined"
    [] val.t = "null" -> "object"
    [] val.t = "bool" -> "boolean"
    [] val.t = "num" -> "number"
    [] val.t = "str" -> "string"
    [] val.t = "fn" -> "function"
    [] OTHER -> "object"

----------------------------------------------------------------------------
(* Paths: a colon-delimited string is a sequence of tokens, each a key or  *)
(* the delimiter ":".                                                      *)

RECURSIVE Split(_)
\* path.split(":")
Split(p) ==
  IF p = <<>> THEN <<"">>
  ELSE IF Head(p) = ":" THEN <<"">> \o Split(Tail(p))
  ELSE IF Len(p) = 1 THEN <<Head(p)>>
  ELSE <<Head(p)>> \o Split(Tail(Tail(p)))

RECURSIVE Join(_)
\* keys.join(":")
Join(keys) ==
  IF keys = <<>> THEN <<>>
  ELSE LET k == IF Head(keys) = "" THEN <<>> ELSE <<Head(keys)>>
       IN IF Len(keys) = 1 THEN k ELSE k \o <<":">> \o Join(Tail(keys))

\* `${a}:${b}`
Colon(a, b) == a \o <<":">> \o b

getKeysFrom(path) == Split(path)

----------------------------------------------------------------------------
(* Objects.  A heap cell or a literal is [kind, cls, policy, store, map]:  *)
(* kind "obj" (plain object), "arr" (array) or "store" (Store instance);   *)
(* map holds the own properties of an object or array in insertion order;  *)
(* a Store instance has its class, its defaultPolicy and the address of    *)
(* the plain object held by its private field `store`.                     *)

Obj(kind, map) == [kind |-> kind, cls |-> 0, policy |-> "", store |-> 0, map |-> map]

\* fields: the instance's declared fields, own properties like the two above
StoreObj(cls, policy, mapping, fields) ==
  [kind |-> "store", cls |-> cls, policy |-> policy, store |-> mapping, map |-> fields]

KV(k, v) == [k |-> k, v |-> v]

MapHas(m, k) == \E i \in 1..Len(m) : m[i].k = k

\* m[k], undefined when absent
MapGet(m, k) ==
  IF MapHas(m, k) THEN m[CHOOSE i \in 1..Len(m) : m[i].k = k].v ELSE Undef

\* m[k] = v: an existing property keeps its place, a new one is appended
MapSet(m, k, v) ==
  IF MapHas(m, k) THEN [i \in 1..Len(m) |-> IF m[i].k = k THEN KV(k, v) ELSE m[i]]
  ELSE Append(m, KV(k, v))

\* where the instances under test live in the heap
Addr == [root |-> 1, child |-> 3, childW |-> 5, sub |-> 7]

\* the caller's non-empty object and array literals; f1 is the producer
\* () => 42 and child the Child instance held by the root's field c
LitTable ==
  << Obj("obj", <<KV("x", Num(1))>>),                        \* 1: {x: 1}
     Obj("obj", <<KV("x", Num(1)), KV("y", Num(2))>>),       \* 2: {x: 1, y: 2}
     Obj("arr", <<KV("0", Num(1)), KV("1", Num(2))>>),       \* 3: [1, 2]
     Obj("obj", <<KV("y", Num(2))>>),                        \* 4: {y: 2}
     Obj("obj", <<KV("a", Num(1)), KV("ro", Num(2))>>),      \* 5: {a: 1, ro: 2}
     Obj("obj", <<KV("f", V("fn", 1)), KV("s", V("ref", Addr.child))>>),
                                                             \* 6: {f: f1, s: child}
     Obj("obj", <<KV("x", V("lit", 4))>>),                   \* 7: {x: {y: 2}}
     Obj("obj", <<KV("k", Num(1)), KV("kr", Num(2))>>),      \* 8: {k: 1, kr: 2}
     Obj("obj", <<KV("n", Null), KV("x", Num(1))>>) >>       \* 9: {n: null, x: 1}

\* the object a reference denotes
Deref(hp, val) == IF val.t = "lit" THEN LitTable[val.v] ELSE hp[val.v]

IsObjRef(val) == val.t \in {"ref", "lit"}

\* value instanceof Store
IsStore(hp, val) == val.t = "ref" /\ hp[val.v].kind = "store"

\* the index keys of an array come first in property order
IndexKeys == <<"0", "1", "2">>

IsIndex(k) == \E i \in 1..Len(IndexKeys) : IndexKeys[i] = k

\* obj[k] for an object or array (own properties, and an array's length)
Lookup(hp, val, k) ==
  LET o == Deref(hp, val)
  IN IF o.kind = "arr" /\ k = "length"
     THEN Num(Cardinality({i \in 1..Len(o.map) : IsIndex(o.map[i].k)}))
     ELSE MapGet(o.map, k)

\* Object.keys(obj).length === 0
isEmptyObject(hp, val) == Len(Deref(hp, val).map) = 0

----------------------------------------------------------------------------
(* The permission registry *)

\* constructor.name of each class: 1 is Store itself, the others extend it;
\* 5 is a second class named Child, declared in another module
ClassName == <<"Store", "Root", "Child", "Sub", "Child">>

\* the class each class extends (none for Store)
Parent == <<0, 1, 1, 3, 1>>

generateKey(target, propertyKey) == <<ClassName[target.cls], ".", propertyKey>>

\* permissions.get(key): "undefined" when there is no entry
getPermission(target, propertyKey) ==
  LET key == generateKey(target, propertyKey)
  IN IF key \in DOMAIN permissions THEN permissions[key] ELSE "undefined"

\* Restrict(permission)(target, propertyKey): permissions.set(key, permission)
Restrict(perms, permission, target, propertyKey) ==
  LET key == generateKey(target, propertyKey)
  IN [k \in DOMAIN perms \cup {key} |-> IF k = key THEN permission ELSE perms[k]]

PermChars ==
  [rw |-> {"r", "w"}, r |-> {"r"}, w |-> {"w"}, none |-> {"n", "o", "e"}]

\* permission.includes(c)
Includes(permission, c) == c \in PermChars[permission]

\* a resolution in which a defaultPolicy other than rw overrides the registry
ResolvedPermissionPolicyFirst(hp, s, key) ==
  IF hp[s].policy # "rw" \/ getPermission(hp[s], key) = "undefined"
  THEN hp[s].policy
  ELSE getPermission(hp[s], key)

\* getPermission(this, key) ?? this.defaultPolicy
ResolvedPermission(hp, s, key) ==
  LET p == getPermission(hp[s], key)
  IN IF p = "undefined" THEN hp[s].policy ELSE p

allowedToRead(hp, s, key) == Includes(ResolvedPermission(hp, s, key), "r")

allowedToWrite(hp, s, key) == Includes(ResolvedPermission(hp, s, key), "w")

----------------------------------------------------------------------------
(* Results and producers *)

Res(out, ret, log, hp) == [out |-> out, ret |-> ret, log |-> log, h |-> hp]

\* The one element of a singleton set.  The({e(x) : x \in {d}}) is
\* LET x == d IN e(x) with d evaluated once, before e.
The(S) == CHOOSE x \in S : TRUE

\* what each zero-argument producer returns: () => 42 and () => child
Producers == <<Num(42), Ref(Addr.child)>>

\* a reader that hands the stored producer out instead of invoking it
callIfIsAFunctionNotCalled(currentValue, log) == [ret |-> currentValue, log |-> log]

callIfIsAFunction(currentValue, log) ==
  IF TypeOf(currentValue) = "function"
  THEN [ret |-> Producers[currentValue.v], log |-> Append(log, currentValue.v)]
  ELSE [ret |-> currentValue, log |-> log]

\* a key used as a path
KeyPath(k) == IF k = "" THEN <<>> ELSE <<k>>

----------------------------------------------------------------------------
(* read *)

RECURSIVE read(_, _, _, _)
RECURSIVE getValueWithRightType(_, _, _, _, _)

\* the loop of getValueWithRightType from index i (1-based) on
getValueWithRightType(hp, keys, i, currentValue, log) ==
  IF i > Len(keys) THEN Res("ok", currentValue, log, hp)
  ELSE IF ~Truthy(currentValue) THEN Res("ok", Undef, log, hp)
  ELSE The({ IF step.out # "ok" THEN step
             ELSE The({ getValueWithRightType(hp, keys, i + 1, c.ret, c.log) :
                        c \in {callIfIsAFunction(step.ret, step.log)} }) :
             step \in { IF IsStore(hp, currentValue)
                        THEN read(hp, currentValue.v, KeyPath(keys[i]), log)
                        ELSE IF TypeOf(currentValue) = "object"
                        THEN Res("ok", Lookup(hp, currentValue, keys[i]), log, hp)
                        ELSE Res("ok", currentValue, log, hp) } })

readValueWithoutPermission(hp, s, path, log) ==
  The({ getValueWithRightType(hp, keys, 2, c.ret, c.log) :
        <<keys, c>> \in
          { <<ks, callIfIsAFunction(Lookup(hp, Ref(hp[s].store), ks[1]), log)>> :
            ks \in {getKeysFrom(path)} } })

\* throws "Permission denied" unless the first key is readable
getHasPermissionToReadAt(hp, s, path) == allowedToRead(hp, s, Split(path)[1])

\* a read that memoizes: a producer stored under the first key is replaced
\* by its result
readMemoizing(hp, s, path, log) ==
  IF ~getHasPermissionToReadAt(hp, s, path) THEN Res("denied", Undef, log, hp)
  ELSE The({ Res(r.out, r.ret, r.log,
                 IF first.t = "fn"
                 THEN [r.h EXCEPT ![hp[s].store].map =
                                    MapSet(@, Split(path)[1], Producers[first.v])]
                 ELSE r.h) :
             <<first, r>> \in {<<Lookup(hp, Ref(hp[s].store), Split(path)[1]),
                                 readValueWithoutPermission(hp, s, path, log)>>} })

read(hp, s, path, log) ==
  IF ~getHasPermissionToReadAt(hp, s, path) THEN Res("denied", Undef, log, hp)
  ELSE readValueWithoutPermission(hp, s, path, log)

----------------------------------------------------------------------------
(* write *)

\* the heap with a new cell, whose address is Len(hp) + 1
Alloc(hp, cell) == Append(hp, cell)

\* (container as JSONObject)[key] = value.  The file is an ES module, hence
\* strict code: creating a property on a primitive throws a TypeError.
Assign(hp, container, key, value, log) ==
  IF container.t = "ref"
  THEN Res("ok", value, log,
           [hp EXCEPT ![container.v].map = MapSet(hp[container.v].map, key, value)])
  ELSE Res("typeerror", Undef, log, hp)

\* how deep transformEntriesIntoPaths may recurse before the call stack is
\* exhausted (a RangeError)
MaxStack == 6

\* the own enumerable properties of an object, in for-in order
OwnProps(hp, val) ==
  The({ IF o.kind = "store"
        THEN <<KV("store", Ref(o.store)), KV("defaultPolicy", Str(o.policy))>> \o o.map
        ELSE SelectSeq(o.map, LAMBDA e : IsIndex(e.k) /\ e.k = "0")
             \o SelectSeq(o.map, LAMBDA e : IsIndex(e.k) /\ e.k = "1")
             \o SelectSeq(o.map, LAMBDA e : IsIndex(e.k) /\ e.k = "2")
             \o SelectSeq(o.map, LAMBDA e : ~IsIndex(e.k)) :
        o \in {Deref(hp, val)} })

RECURSIVE transformProps(_, _, _, _, _)

\* the for-in loop of transformEntriesIntoPaths over the properties props;
\* acc is [out, paths], paths the list of {path: value} pushed so far
transformProps(hp, props, currentKey, acc, depth) ==
  IF acc.out # "ok" \/ props = <<>> THEN acc
  ELSE The({ transformProps(hp, Tail(props), currentKey, next, depth) :
             next \in
               { The({ IF TypeOf(e.v) = "object"
                       THEN IF depth >= MaxStack
                            THEN [out |-> "rangeerror", paths |-> acc.paths]
                            ELSE IF e.v = Null THEN acc
                            ELSE transformProps(hp, OwnProps(hp, e.v), currentPath, acc,
                                                depth + 1)
                       ELSE [out |-> "ok",
                             paths |-> Append(acc.paths,
                                              [path |-> currentPath, value |-> e.v])] :
                       currentPath \in
                         { IF currentKey # <<>> THEN Colon(currentKey, KeyPath(e.k))
                           ELSE KeyPath(e.k) } }) :
                 e \in {Head(props)} } })

transformEntriesIntoPaths(hp, entries) ==
  The({ transformProps(hp, props, <<>>, [out |-> "ok", paths |-> <<>>], 1) :
        props \in {OwnProps(hp, entries)} })

RECURSIVE write(_, _, _, _, _)
RECURSIVE writeEntriesLoop(_, _, _, _, _)
RECURSIVE findStoreLoop(_, _, _, _, _)
RECURSIVE writeValuesUntilLastKey(_, _, _, _, _, _)

\* the loop of findStoreToWriteTo from index i (1-based) on; found is
\* [out, store, key, log]
findStoreLoop(hp, s, keys, i, found) ==
  IF i > Len(keys) - 1 THEN found
  ELSE The({ IF potentialStore.out # "ok"
             THEN [found EXCEPT !.out = potentialStore.out, !.log = potentialStore.log]
             ELSE IF IsStore(hp, potentialStore.ret) /\ potentialStore.ret.v # found.store
             THEN findStoreLoop(hp, s, keys, i + 1,
                    [out |-> "ok", store |-> potentialStore.ret.v, key |-> keys[i + 1],
                     log |-> potentialStore.log])
             ELSE findStoreLoop(hp, s, keys, i + 1,
                                [found EXCEPT !.log = potentialStore.log]) :
             potentialStore \in
               {readValueWithoutPermission(hp, s, Join(SubSeq(keys, 1, i)), found.log)} })

findStoreToWriteTo(hp, s, path, log) ==
  The({ findStoreLoop(hp, s, keys, 1,
                      [out |-> "ok", store |-> s, key |-> keys[1], log |-> log]) :
        keys \in {getKeysFrom(path)} })

\* ends "denied" when the owning store does not allow the write
getHasPermissionToWriteAt(hp, s, path, log) ==
  The({ IF f.out # "ok" THEN Res(f.out, Undef, f.log, hp)
        ELSE IF ~allowedToWrite(hp, f.store, f.key) THEN Res("denied", Undef, f.log, hp)
        ELSE Res("ok", Undef, f.log, hp) :
        f \in {findStoreToWriteTo(hp, s, path, log)} })

\* currentValue.write(lastKey, value); return value
writeToChildStore(hp, currentValue, lastKey, value, log) ==
  The({ Res(w.out, value, w.log, w.h) :
        w \in {write(hp, currentValue.v, KeyPath(lastKey), value, log)} })

\* currentValue[currentKey] = {}; the new object is the next container
writeSimpleNestedKey(hp, currentValue, currentKey, log) ==
  The({ Assign(hp1, currentValue, currentKey, Ref(Len(hp1)), log) :
        hp1 \in {Alloc(hp, Obj("obj", <<>>))} })

\* currentValue[currentKey] = new Store(); the new Store is the next container
writeChildAsNestedStore(hp, currentValue, currentKey, log) ==
  The({ Assign(hp2, currentValue, currentKey, Ref(Len(hp2)), log) :
        hp2 \in {Alloc(Alloc(hp, Obj("obj", <<>>)),
                       StoreObj(1, "rw", Len(hp) + 1, <<>>))} })

writeNestedKey(hp, currentValue, currentKey, log) ==
  IF IsStore(hp, currentValue)
  THEN The({ writeToChildStore(hp1, currentValue, currentKey, Ref(Len(hp1)), log) :
             hp1 \in {Alloc(hp, Obj("obj", <<>>))} })
  ELSE IF currentKey = "store"
  THEN writeChildAsNestedStore(hp, currentValue, currentKey, log)
  ELSE writeSimpleNestedKey(hp, currentValue, currentKey, log)

\* the loop of writeValuesUntilLastKey from index i (1-based) on; the
\* result's ret is the container reached
writeValuesUntilLastKey(hp, s, keys, i, currentValue, log) ==
  IF i > Len(keys) - 1 THEN Res("ok", currentValue, log, hp)
  ELSE The({ IF valueToRead.out # "ok" THEN valueToRead
             ELSE IF ~Truthy(valueToRead.ret)
             THEN The({ IF n.out # "ok" THEN n
                        ELSE writeValuesUntilLastKey(n.h, s, keys, i + 1, n.ret, n.log) :
                        n \in {writeNestedKey(hp, currentValue, keys[i], valueToRead.log)} })
             ELSE writeValuesUntilLastKey(hp, s, keys, i + 1, valueToRead.ret,
                                          valueToRead.log) :
             valueToRead \in {read(hp, s, Join(SubSeq(keys, 1, i)), log)} })

\* this.writeEntries(value, lastKey)
writeValueWhichIsAnObject(hp, s, value, lastKey, log) ==
  The({ IF t.out # "ok" THEN Res(t.out, Undef, log, hp)
        ELSE writeEntriesLoop(hp, s, t.paths, KeyPath(lastKey), log) :
        t \in {transformEntriesIntoPaths(hp, value)} })

writeLastKeyValue(hp, s, keys, value, currentValue, log) ==
  IF ~IsStore(hp, value) /\ TypeOf(value) = "object" /\ value = Null
  THEN Res("typeerror", Undef, log, hp)   \* Object.keys(null) throws
  ELSE IF ~IsStore(hp, value) /\ TypeOf(value) = "object" /\ ~isEmptyObject(hp, value)
  THEN writeValueWhichIsAnObject(hp, s, value, keys[Len(keys)], log)
  ELSE IF IsStore(hp, currentValue)
  THEN writeToChildStore(hp, currentValue, keys[Len(keys)], value, log)
  ELSE Assign(hp, currentValue, keys[Len(keys)], value, log)

writeWithoutPermission(hp, s, path, value, log) ==
  The({ IF c.out # "ok" THEN c
        ELSE The({ IF w.out # "ok" THEN w ELSE Res("ok", value, w.log, w.h) :
                   w \in {writeLastKeyValue(c.h, s, keys, value, c.ret, c.log)} }) :
        <<keys, c>> \in
          { <<ks, writeValuesUntilLastKey(hp, s, ks, 1, Ref(hp[s].store), log)>> :
            ks \in {getKeysFrom(path)} } })

write(hp, s, path, value, log) ==
  The({ IF p.out # "ok" THEN p
        ELSE writeWithoutPermission(hp, s, path, value, p.log) :
        p \in {getHasPermissionToWriteAt(hp, s, path, log)} })

\* the loop of writeEntries over the list paths
writeEntriesLoop(hp, s, paths, originPath, log) ==
  IF paths = <<>> THEN Res("ok", Undef, log, hp)
  ELSE The({ IF w.out # "ok" THEN w
             ELSE writeEntriesLoop(w.h, s, Tail(paths), originPath, w.log) :
             w \in { write(hp, s,
                           IF originPath # <<>> THEN Colon(originPath, Head(paths).path)
                           ELSE Head(paths).path,
                           Head(paths).value, log) } })

writeEntries(hp, s, entries, originPath, log) ==
  The({ IF t.out # "ok" THEN Res(t.out, Undef, log, hp)
        ELSE writeEntriesLoop(hp, s, t.paths, originPath, log) :
        t \in {transformEntriesIntoPaths(hp, entries)} })

\* an entries() that hands out a copy of the mapping
entriesCopy(hp, s) ==
  Res("ok", Ref(Len(hp) + 1), <<>>, Alloc(hp, hp[hp[s].store]))

\* return this.store
entries(hp, s) == Res("ok", Ref(hp[s].store), <<>>, hp)

----------------------------------------------------------------------------
(* Construction.  The classes under test:                                  *)
(*   class Child extends Store {                                           *)
(*     @Restrict("r") kr = 7;  @Restrict("w") kw = 8;  @Restrict() kn = 9; *)
(*     constructor() { super(); this.initializeProperties(); } }           *)
(*   class Root extends Store {                                            *)
(*     @Restrict("r") ro = 5;  @Restrict("w") wo = 6;  @Restrict() no = 9; *)
(*     @Restrict("rw") c = new Child();  @Restrict("w") cw = new Child();  *)
(*     constructor() { super(); this.initializeProperties(); } }           *)
(*   class Sub extends Child {}        (an instance exists from the start) *)
(* and, in a module evaluated later, a second class of the same name:      *)
(*   class Child extends Store { @Restrict("w") kr = 1; }                  *)

\* the decorators, in the order the class definitions apply them
Decorators ==
  << [cls |-> 3, field |-> "kr", p |-> "r"], [cls |-> 3, field |-> "kw", p |-> "w"],
     [cls |-> 3, field |-> "kn", p |-> "none"],
     [cls |-> 2, field |-> "ro", p |-> "r"], [cls |-> 2, field |-> "wo", p |-> "w"],
     [cls |-> 2, field |-> "no", p |-> "none"],
     [cls |-> 2, field |-> "c", p |-> "rw"], [cls |-> 2, field |-> "cw", p |-> "w"] >>

RECURSIVE Decorate(_, _)
Decorate(perms, ds) ==
  IF ds = <<>> THEN perms
  ELSE Decorate(Restrict(perms, Head(ds).p, [cls |-> Head(ds).cls], Head(ds).field),
                Tail(ds))

ChildFields == <<KV("kr", Num(7)), KV("kw", Num(8)), KV("kn", Num(9))>>

RootFields ==
  <<KV("ro", Num(5)), KV("wo", Num(6)), KV("no", Num(9)),
    KV("c", Ref(Addr.child)), KV("cw", Ref(Addr.childW))>>

\* the instances as the field initialisers leave them, mappings still empty
Allocated ==
  << StoreObj(2, "rw", 2, RootFields), Obj("obj", <<>>),
     StoreObj(3, "rw", 4, ChildFields), Obj("obj", <<>>),
     StoreObj(3, "rw", 6, ChildFields), Obj("obj", <<>>),
     StoreObj(4, "rw", 8, ChildFields), Obj("obj", <<>>) >>

RECURSIVE initializeLoop(_, _, _)
\* addPropertiesWithRequireAnnotation for each own property name
initializeLoop(hp, s, props) ==
  IF props = <<>> THEN hp
  ELSE The({ IF hasPermissionSet # "undefined" /\ hasPermissionSet # "none"
             THEN The({ initializeLoop(w.h, s, Tail(props)) :
                        w \in {writeWithoutPermission(hp, s, KeyPath(Head(props).k),
                                                      Head(props).v, <<>>)} })
             ELSE initializeLoop(hp, s, Tail(props)) :
             hasPermissionSet \in {getPermission(hp[s], Head(props).k)} })

initializeProperties(hp, s) ==
  The({ initializeLoop(hp, s, props) : props \in {OwnProps(hp, Ref(s))} })

\* new Root(), whose field initialisers construct the two Child instances,
\* and new Sub()
Constructed ==
  The({ initializeProperties(h3, Addr.sub) :
        h3 \in { The({ initializeProperties(h2, Addr.root) :
                       h2 \in { The({ initializeProperties(h1, Addr.childW) :
                                      h1 \in {initializeProperties(Allocated,
                                                                   Addr.child)} }) } }) } })

\* the decorators of the second class named Child
LateDecorators == << [cls |-> 5, field |-> "kr", p |-> "w"] >>

----------------------------------------------------------------------------
(* The calls a client makes *)

\* how many steps a behaviour makes
MaxOps == 2

P1(a) == <<a>>

P2(a, b) == <<a, ":", b>>

P3(a, b, c) == <<a, ":", b, ":", c>>

\* an argument of write: a value, or an expression the caller evaluates to
\* a fresh empty object, empty array or Store
NewObj == V("new", 1)

NewArr == V("new", 2)

NewStore == V("new", 3)

\* the heap and the value after the caller has evaluated the argument
Evaluate(hp, arg) ==
  IF arg = NewObj THEN [h |-> Alloc(hp, Obj("obj", <<>>)), v |-> Ref(Len(hp) + 1)]
  ELSE IF arg = NewArr THEN [h |-> Alloc(hp, Obj("arr", <<>>)), v |-> Ref(Len(hp) + 1)]
  ELSE IF arg = NewStore
  THEN [h |-> Alloc(Alloc(hp, Obj("obj", <<>>)), StoreObj(1, "rw", Len(hp) + 1, <<>>)),
        v |-> Ref(Len(hp) + 2)]
  ELSE [h |-> hp, v |-> arg]

Scalars == {Num(5), Num(0), Str("s"), Str(""), Bool(TRUE), Bool(FALSE), Null}

WriteInputs ==
  ({P1("a"), P2("a", "b")} \X (Scalars \cup {NewObj, NewArr, Lit(3), Fn(1), Fn(2)}))
  \cup ({P1("a"), P2("a", "b"), P1("ro"), P2("ro", "b"), P1("wo"), P2("wo", "b"),
         P1("no"), P2("no", "b"), P2("c", "k"), P2("c", "kr"), P2("c", "kw"),
         P2("cw", "k"), P3("a", "b", "x"), P3("c", "k", "x"),
         P2("store", "x"), P3("store", "store", "x"), P3("outer", "store", "inner")}
        \X {Num(7), Lit(1)})
  \cup ({P1("a")} \X {Lit(2), Lit(4), Lit(7)})
  \cup ({P1("c")} \X {Lit(8)})
  \cup ({P2("c", "k")} \X {Fn(1)})

\* writeEntries(entries, originPath)
EntriesInputs ==
  {<<>>} \X {Lit(2), Lit(5), Lit(6), Lit(7), Lit(9)} \cup {<<P1("a"), Lit(6)>>}

QueryStores == {Addr.root, Addr.child}

QueryKeys == {"a", "ro", "wo", "no", "kr", "kw"}

ReadInputs ==
  {P1("a"), P2("a", "b"), P2("a", "x"), P3("a", "b", "x"), P1("ro"), P2("ro", "b"),
   P1("wo"), P1("no"), P2("c", "k"), P2("c", "kr"), P2("c", "kw"), P2("cw", "k"),
   P3("c", "k", "x"), P2("store", "x"), P3("store", "store", "x"),
   P3("outer", "store", "inner"), P2("missing", "path"), P1("f"), P1("s")}

Call(op, s, path, value, r, pre) ==
  [op |-> op, s |-> s, path |-> path, value |-> value, out |-> r.out, ret |-> r.ret,
   log |-> r.log, pre |-> pre]

NoCall == Call("none", 0, <<>>, Undef, Res("ok", Undef, <<>>, <<>>), <<>>)

\* the client holds no mapping yet
NoHeld == [s |-> 0, ret |-> Undef]

Init ==
  /\ permissions = Decorate(<<>>, Decorators)
  /\ h = Constructed
  /\ last = NoCall
  /\ held = NoHeld
  /\ nops = 0
  /\ defined = {1, 2, 3, 4}
  /\ stack = <<>>
  /\ steps = 0

Write(s, path, arg) ==
  /\ nops < MaxOps
  /\ \E e \in {Evaluate(h, arg)} :
       \E r \in {write(e.h, s, path, e.v, <<>>)} :
         /\ h' = r.h
         /\ last' = Call("write", s, path, e.v, r, e.h)
  /\ nops' = nops + 1
  /\ UNCHANGED <<permissions, held, defined, stack, steps>>

WriteEntries(s, obj, originPath) ==
  /\ nops < MaxOps
  /\ \E r \in {writeEntries(h, s, obj, originPath, <<>>)} :
       /\ h' = r.h
       /\ last' = Call("writeEntries", s, originPath, obj, r, h)
  /\ nops' = nops + 1
  /\ UNCHANGED <<permissions, held, defined, stack, steps>>

Read(s, path) ==
  /\ nops < MaxOps
  /\ \E r \in {read(h, s, path, <<>>)} :
       /\ h' = r.h
       /\ last' = Call("read", s, path, Undef, r, h)
  /\ nops' = nops + 1
  /\ UNCHANGED <<permissions, held, defined, stack, steps>>

AllowedToRead(s, key) ==
  /\ nops < MaxOps
  /\ last' = Call("allowedToRead", s, KeyPath(key), Undef,
                  Res("ok", Bool(allowedToRead(h, s, key)), <<>>, h), h)
  /\ nops' = nops + 1
  /\ UNCHANGED <<h, permissions, held, defined, stack, steps>>

AllowedToWrite(s, key) ==
  /\ nops < MaxOps
  /\ last' = Call("allowedToWrite", s, KeyPath(key), Undef,
                  Res("ok", Bool(allowedToWrite(h, s, key)), <<>>, h), h)
  /\ nops' = nops + 1
  /\ UNCHANGED <<h, permissions, held, defined, stack, steps>>

\* m = s.entries(): the client keeps the mapping returned
Entries(s) ==
  /\ nops < MaxOps
  /\ \E r \in {entries(h, s)} :
       /\ h' = r.h
       /\ last' = Call("entries", s, <<>>, Undef, r, h)
       /\ held' = [s |-> s, ret |-> r.ret]
  /\ nops' = nops + 1
  /\ UNCHANGED <<permissions, defined, stack, steps>>

\* the module that declares the second class named Child is evaluated: its
\* decorators run
DefineClass(c) ==
  /\ nops < MaxOps
  /\ c \notin defined
  /\ defined' = defined \cup {c}
  /\ permissions' = Decorate(permissions, SelectSeq(LateDecorators, LAMBDA d : d.cls = c))
  /\ last' = Call("define", 0, <<>>, Undef, Res("ok", Undef, <<>>, h), h)
  /\ nops' = nops + 1
  /\ UNCHANGED <<h, held, stack, steps>>

\* store.defaultPolicy = policy (the field is public)
SetDefaultPolicy(s, policy) ==
  /\ nops < MaxOps
  /\ h' = [h EXCEPT ![s].policy = policy]
  /\ last' = Call("setDefaultPolicy", s, <<>>, Str(policy), Res("ok", Undef, <<>>, h), h)
  /\ nops' = nops + 1
  /\ UNCHANGED <<permissions, held, defined, stack, steps>>

Next ==
  \/ \E i \in WriteInputs : Write(Addr.root, i[1], i[2])
  \/ \E i \in EntriesInputs : WriteEntries(Addr.root, i[2], i[1])
  \/ \E p \in ReadInputs : Read(Addr.root, p)
  \/ \E s \in QueryStores \cup {Addr.sub}, k \in QueryKeys : AllowedToRead(s, k)
  \/ \E s \in QueryStores \cup {Addr.sub}, k \in QueryKeys : AllowedToWrite(s, k)
  \/ \E s \in QueryStores : Entries(s)
  \/ DefineClass(5)
  \/ \E s \in QueryStores, p \in {"r", "w", "none"} : SetDefaultPolicy(s, p)

Spec == Init /\ [][Next]_vars

----------------------------------------------------------------------------
(* One call, step by step.  A call of read or write runs as a stack of     *)
(* invocations of Store methods: an invocation of read or write, or of the *)
(* private readValueWithoutPermission, is a frame; a step runs the frame   *)
(* on top up to its next loop iteration, nested invocation, return or      *)
(* throw.  No method catches an error: a throw ends the whole call.        *)

\* a new invocation of the method op on the Store s
Frame(op, s, path, value) ==
  [op |-> op, s |-> s, path |-> path, value |-> value, pc |-> "start", keys |-> <<>>,
   i |-> 0, cur |-> Undef, store |-> s, key |-> "", got |-> Undef, ret |-> Undef]

Top == stack[Len(stack)]

\* the stack with its top frame replaced by f
SetTop(f) == [stack EXCEPT ![Len(stack)] = f]

\* the top frame f waits for the invocation g it makes
Invoke(f, g) == Append(SetTop(f), g)

\* the call goes on with the stack stk, the heap hp and the producers lg
Goto(stk, hp, lg) ==
  /\ stack' = stk
  /\ h' = hp
  /\ last' = [last EXCEPT !.log = lg]

\* throw new Error(...), or a TypeError: the call ends
Throw(out, hp) ==
  /\ stack' = <<>>
  /\ h' = hp
  /\ last' = [last EXCEPT !.out = out]

\* the top frame is at pc: it takes a step
At(pc) ==
  /\ stack # <<>>
  /\ Top.pc = pc
  /\ steps' = steps + 1
  /\ UNCHANGED <<permissions, held, defined, nops>>

\* a path that hands the whole rest of the keys to the child Store
DelegatedPathRest(keys, i) == Join(SubSeq(keys, i, Len(keys)))

\* currentValue.read(key): the child Store is given the one key
DelegatedPath(keys, i) == KeyPath(keys[i])

\* the client calls read(path)
CallRead(s, path) ==
  /\ stack = <<>>
  /\ nops < MaxOps
  /\ stack' = <<Frame("read", s, path, Undef)>>
  /\ last' = Call("read", s, path, Undef, Res("running", Undef, <<>>, h), h)
  /\ steps' = 0
  /\ nops' = nops + 1
  /\ UNCHANGED <<h, permissions, held, defined>>

\* the client calls write(path, value)
CallWrite(s, path, value) ==
  /\ stack = <<>>
  /\ nops < MaxOps
  /\ stack' = <<Frame("write", s, path, value)>>
  /\ last' = Call("write", s, path, value, Res("running", Undef, <<>>, h), h)
  /\ steps' = 0
  /\ nops' = nops + 1
  /\ UNCHANGED <<h, permissions, held, defined>>

\* read: the permission check, then the head of readValueWithoutPermission
ReadStart ==
  /\ At("start")
  /\ Top.op \in {"read", "readNoPerm"}
  /\ IF Top.op = "read" /\ ~getHasPermissionToReadAt(h, Top.s, Top.path)
     THEN Throw("denied", h)
     ELSE \E keys \in {getKeysFrom(Top.path)} :
            \E c \in {callIfIsAFunction(Lookup(h, Ref(h[Top.s].store), keys[1]),
                                        last.log)} :
              Goto(SetTop([Top EXCEPT !.keys = keys, !.cur = c.ret, !.i = 2,
                                      !.pc = "loop"]), h, c.log)

\* one iteration of the loop of getValueWithRightType, or its end
ReadLoop ==
  /\ At("loop")
  /\ IF Top.i > Len(Top.keys)
     THEN Goto(SetTop([Top EXCEPT !.pc = "done", !.ret = Top.cur]), h, last.log)
     ELSE IF ~Truthy(Top.cur)
     THEN Goto(SetTop([Top EXCEPT !.pc = "done", !.ret = Undef]), h, last.log)
     ELSE IF IsStore(h, Top.cur)
     THEN Goto(Invoke([Top EXCEPT !.pc = "await"],
                      Frame("read", Top.cur.v, DelegatedPath(Top.keys, Top.i), Undef)),
               h, last.log)
     ELSE \E c \in {callIfIsAFunction(IF TypeOf(Top.cur) = "object"
                                      THEN Lookup(h, Top.cur, Top.keys[Top.i])
                                      ELSE Top.cur, last.log)} :
            Goto(SetTop([Top EXCEPT !.cur = c.ret, !.i = Top.i + 1]), h, c.log)

\* the child Store's read has returned: the rest of the iteration
ReadGot ==
  /\ At("got")
  /\ \E c \in {callIfIsAFunction(Top.got, last.log)} :
       Goto(SetTop([Top EXCEPT !.cur = c.ret, !.i = Top.i + 1, !.pc = "loop"]), h, c.log)

\* where an invocation that waits goes on when the one it made returns
Resume ==
  [await |-> "got", findAwait |-> "findGot", walkAwait |-> "walkGot",
   nestAwait |-> "nestGot", lastAwait |-> "lastGot"]

\* return: the value goes to the invocation below, or to the client
Return ==
  /\ At("done")
  /\ IF Len(stack) = 1
     THEN /\ stack' = <<>>
          /\ h' = h
          /\ last' = [last EXCEPT !.out = "ok", !.ret = Top.ret]
     ELSE \E below \in {stack[Len(stack) - 1]} :
            Goto(Append(SubSeq(stack, 1, Len(stack) - 2),
                        [below EXCEPT !.got = Top.ret, !.pc = Resume[below.pc]]),
                 h, last.log)

\* write: the head of findStoreToWriteTo
WriteStart ==
  /\ At("start")
  /\ Top.op = "write"
  /\ \E keys \in {getKeysFrom(Top.path)} :
       Goto(SetTop([Top EXCEPT !.keys = keys, !.store = Top.s, !.key = keys[1],
                               !.i = 1, !.pc = "find"]), h, last.log)

\* one iteration of the loop of findStoreToWriteTo; at its end the check of
\* getHasPermissionToWriteAt and the head of writeWithoutPermission
WriteFind ==
  /\ At("find")
  /\ IF Top.i > Len(Top.keys) - 1
     THEN IF ~allowedToWrite(h, Top.store, Top.key)
          THEN Throw("denied", h)
          ELSE Goto(SetTop([Top EXCEPT !.pc = "walk", !.i = 1,
                                       !.cur = Ref(h[Top.s].store)]), h, last.log)
     ELSE Goto(Invoke([Top EXCEPT !.pc = "findAwait"],
                      Frame("readNoPerm", Top.s, Join(SubSeq(Top.keys, 1, Top.i)), Undef)),
               h, last.log)

\* readValueWithoutPermission has returned potentialStore
WriteFindGot ==
  /\ At("findGot")
  /\ IF IsStore(h, Top.got) /\ Top.got.v # Top.store
     THEN Goto(SetTop([Top EXCEPT !.store = Top.got.v, !.key = Top.keys[Top.i + 1],
                                  !.i = Top.i + 1, !.pc = "find"]), h, last.log)
     ELSE Goto(SetTop([Top EXCEPT !.i = Top.i + 1, !.pc = "find"]), h, last.log)

\* one iteration of the loop of writeValuesUntilLastKey: this.read(currentKeys)
WriteWalk ==
  /\ At("walk")
  /\ IF Top.i > Len(Top.keys) - 1
     THEN Goto(SetTop([Top EXCEPT !.pc = "last"]), h, last.log)
     ELSE Goto(Invoke([Top EXCEPT !.pc = "walkAwait"],
                      Frame("read", Top.s, Join(SubSeq(Top.keys, 1, Top.i)), Undef)),
               h, last.log)

\* read has returned valueToRead: descend into it, or writeNestedKey
WriteWalkGot ==
  /\ At("walkGot")
  /\ IF Truthy(Top.got)
     THEN Goto(SetTop([Top EXCEPT !.cur = Top.got, !.i = Top.i + 1, !.pc = "walk"]),
               h, last.log)
     ELSE IF IsStore(h, Top.cur)
     THEN \E hp1 \in {Alloc(h, Obj("obj", <<>>))} :
            Goto(Invoke([Top EXCEPT !.pc = "nestAwait"],
                        Frame("write", Top.cur.v, KeyPath(Top.keys[Top.i]), Ref(Len(hp1)))),
                 hp1, last.log)
     ELSE \E n \in {IF Top.keys[Top.i] = "store"
                    THEN writeChildAsNestedStore(h, Top.cur, Top.keys[Top.i], last.log)
                    ELSE writeSimpleNestedKey(h, Top.cur, Top.keys[Top.i], last.log)} :
            IF n.out # "ok" THEN Throw(n.out, n.h)
            ELSE Goto(SetTop([Top EXCEPT !.cur = n.ret, !.i = Top.i + 1, !.pc = "walk"]),
                      n.h, last.log)

\* writeToChildStore has returned the new object
WriteNestGot ==
  /\ At("nestGot")
  /\ Goto(SetTop([Top EXCEPT !.cur = Top.got, !.i = Top.i + 1, !.pc = "walk"]),
          h, last.log)

\* writeLastKeyValue; the fan-out of a non-empty object is taken as a whole
WriteLast ==
  /\ At("last")
  /\ \E lastKey \in {Top.keys[Len(Top.keys)]} :
       IF ~IsStore(h, Top.value) /\ TypeOf(Top.value) = "object" /\ Top.value = Null
       THEN Throw("typeerror", h)
       ELSE IF /\ ~IsStore(h, Top.value) /\ TypeOf(Top.value) = "object"
               /\ ~isEmptyObject(h, Top.value)
       THEN \E w \in {writeValueWhichIsAnObject(h, Top.s, Top.value, lastKey, last.log)} :
              IF w.out # "ok" THEN Throw(w.out, w.h)
              ELSE Goto(SetTop([Top EXCEPT !.pc = "done", !.ret = Top.value]), w.h, w.log)
       ELSE IF IsStore(h, Top.cur)
       THEN Goto(Invoke([Top EXCEPT !.pc = "lastAwait"],
                        Frame("write", Top.cur.v, KeyPath(lastKey), Top.value)),
                 h, last.log)
       ELSE \E w \in {Assign(h, Top.cur, lastKey, Top.value, last.log)} :
              IF w.out # "ok" THEN Throw(w.out, w.h)
              ELSE Goto(SetTop([Top EXCEPT !.pc = "done", !.ret = Top.value]), w.h, w.log)

\* writeToChildStore has returned: write returns value
WriteLastGot ==
  /\ At("lastGot")
  /\ Goto(SetTop([Top EXCEPT !.pc = "done", !.ret = Top.value]), h, last.log)

\* the paths and values of the calls followed step by step: a Store written
\* into itself and into its child, scalars written and read below them
StepWrites ==
  { <<P1("self"), Ref(Addr.root)>>, <<P2("c", "back"), Ref(Addr.root)>>,
    <<P1("a"), Num(7)>>, <<P3("a", "b", "x"), Num(7)>>, <<P3("c", "k", "x"), Num(7)>>,
    <<P3("self", "self", "x"), Num(7)>>, <<P3("c", "back", "x"), Num(7)>>,
    <<Join(<<"self", "self", "self", "x">>), Num(7)>>,
    <<P1("ro"), Num(7)>>, <<P2("store", "x"), Num(7)>>, <<P1("a"), Null>> }

StepReads ==
  { P1("a"), P3("a", "b", "x"), P2("c", "kr"), P1("wo"), P3("self", "self", "x"),
    Join(<<"self", "self", "self", "x">>), Join(<<"c", "back", "c", "kr">>) }

\* the steps of a call in progress
Run ==
  \/ ReadStart
  \/ ReadLoop
  \/ ReadGot
  \/ Return
  \/ WriteStart
  \/ WriteFind
  \/ WriteFindGot
  \/ WriteWalk
  \/ WriteWalkGot
  \/ WriteNestGot
  \/ WriteLast
  \/ WriteLastGot

NextSteps ==
  \/ \E p \in StepReads : CallRead(Addr.root, p)
  \/ \E i \in StepWrites : CallWrite(Addr.root, i[1], i[2])
  \/ Run

\* a call is synchronous: once made it runs on until it returns or throws
SpecSteps == Init /\ [][NextSteps]_vars /\ WF_vars(Run)

----------------------------------------------------------------------------
(* What the tree holds, told from the heap alone (no permission check, no  *)
(* traversal code): the vocabulary the properties below are stated in.     *)

\* the raw entry under key k of a container: a Store's mapping, an object
\* or an array; anything else holds nothing
Entry(hp, container, k) ==
  IF IsStore(hp, container) THEN MapGet(hp[hp[container.v].store].map, k)
  ELSE IF container.t = "ref" THEN MapGet(hp[container.v].map, k)
  ELSE Undef

\* a stored entry as a reader sees it: a producer stands for its result
Materialized(entry) == IF entry.t = "fn" THEN Producers[entry.v] ELSE entry

RECURSIVE Stored(_, _, _)
\* the value stored at keys below a container, undefined when there is none
Stored(hp, container, keys) ==
  IF keys = <<>> THEN container
  ELSE Stored(hp, Materialized(Entry(hp, container, Head(keys))), Tail(keys))

StoredAt(hp, s, keys) == Stored(hp, Ref(s), keys)

\* the entry itself at keys, a producer left as it is
RawAt(hp, s, keys) ==
  Entry(hp, StoredAt(hp, s, SubSeq(keys, 1, Len(keys) - 1)), keys[Len(keys)])

\* the proper prefixes of keys that resolve to a child Store
ChildHops(hp, s, keys) ==
  {i \in 1..(Len(keys) - 1) : IsStore(hp, StoredAt(hp, s, SubSeq(keys, 1, i)))}

CrossesChild(hp, s, keys) == ChildHops(hp, s, keys) # {}

Max(S) == CHOOSE x \in S : \A y \in S : y <= x

Range(f) == {f[i] : i \in DOMAIN f}

IsScalar(val) == val.t \in {"num", "str", "bool", "null"}

IsPlainObject(hp, val) == IsObjRef(val) /\ Deref(hp, val).kind = "obj"

IsArray(hp, val) == IsObjRef(val) /\ Deref(hp, val).kind = "arr"

LastKeys == Split(last.path)

\* the permission the node s resolves for key k: the registry entry of its
\* class when there is one, its defaultPolicy otherwise
Governing(hp, s, k) ==
  IF <<ClassName[hp[s].cls], ".", k>> \in DOMAIN permissions
  THEN permissions[<<ClassName[hp[s].cls], ".", k>>]
  ELSE hp[s].policy

----------------------------------------------------------------------------
(* Properties *)

\* C1: on one node, for a path that does not cross into a child Store, read
\* completes iff the first key's permission is r or rw and is denied iff it
\* is w or none; write (of a string, number or boolean, or of a non-empty
\* object) completes iff it is w or rw and is denied iff it is r or none.
C1_PermissionGating ==
  (/\ last.op \in {"read", "write"}
   /\ ~CrossesChild(last.pre, last.s, LastKeys)
   /\ last.op = "write" =>
        \/ IsScalar(last.value) /\ last.value # Null
        \/ IsPlainObject(last.pre, last.value) /\ ~isEmptyObject(last.pre, last.value))
  => LET p == Governing(last.pre, last.s, LastKeys[1])
     IN /\ last.op = "read" =>
             /\ last.out = "ok" <=> p \in {"r", "rw"}
             /\ last.out = "denied" <=> p \in {"w", "none"}
        /\ last.op = "write" =>
             /\ last.out = "ok" <=> p \in {"w", "rw"}
             /\ last.out = "denied" <=> p \in {"r", "none"}

\* C2: a write whose path crosses into child Stores is allowed or denied
\* exactly as the deepest child Store reached allows writing the segment
\* that follows it, whatever the root says about any segment.
C2_OwningNodeWriteCheck ==
  (/\ last.op = "write"
   /\ last.s = Addr.root
   /\ CrossesChild(last.pre, last.s, LastKeys))
  => LET i == Max(ChildHops(last.pre, last.s, LastKeys))
         C == StoredAt(last.pre, last.s, SubSeq(LastKeys, 1, i)).v
         allowed == Includes(Governing(last.pre, C, LastKeys[i + 1]), "w")
     IN /\ last.out = "ok" <=> allowed
        /\ last.out = "denied" <=> ~allowed

\* every node on the way to keys resolves rw for the segment it holds
ReadWritePath(hp, s, keys) ==
  /\ Governing(hp, s, keys[1]) = "rw"
  /\ \A i \in ChildHops(hp, s, keys) :
       Governing(hp, StoredAt(hp, s, SubSeq(keys, 1, i)).v, keys[i + 1]) = "rw"

\* equal values: the same primitive or reference, or two objects of the
\* same kind with the same properties
SameValue(hp, a, b) ==
  \/ a = b
  \/ /\ IsObjRef(a) /\ IsObjRef(b)
     /\ Deref(hp, a).kind = Deref(hp, b).kind
     /\ Deref(hp, a).map = Deref(hp, b).map

\* C3: on a path where read and write are permitted, writing a scalar, an
\* array or the empty object completes, and reading the path back returns
\* an equal value.
C3_RoundTrip ==
  (/\ last.op = "write"
   /\ ReadWritePath(last.pre, last.s, LastKeys)
   /\ \/ IsScalar(last.value)
      \/ IsArray(last.pre, last.value)
      \/ IsPlainObject(last.pre, last.value) /\ isEmptyObject(last.pre, last.value))
  => /\ last.out = "ok"
     /\ LET r == read(h, last.s, last.path, <<>>)
        IN r.out = "ok" /\ SameValue(h, r.ret, last.value)

RECURSIVE LeavesOf(_, _, _)
\* the leaves of a literal: every value in it that is not a plain nested
\* object, with its relative path (props are the properties still to visit)
LeavesOf(props, prefix, acc) ==
  IF props = <<>> THEN acc
  ELSE LET e == Head(props)
           path == IF prefix = <<>> THEN <<e.k>> ELSE Colon(prefix, <<e.k>>)
           here == IF e.v.t = "lit" /\ LitTable[e.v.v].kind = "obj"
                   THEN LeavesOf(LitTable[e.v.v].map, path, acc)
                   ELSE Append(acc, [path |-> path, value |-> e.v])
       IN LeavesOf(Tail(props), prefix, here)

Leaves(lit) == LeavesOf(LitTable[lit.v].map, <<>>, <<>>)

\* C4: after write(P, V) with V a non-empty plain object, every scalar leaf
\* x of V at relative path R is read back at P:R.
C4_FlatteningUnderPath ==
  (/\ last.op = "write"
   /\ last.out = "ok"
   /\ last.value.t = "lit"
   /\ IsPlainObject(last.pre, last.value))
  => \A i \in 1..Len(Leaves(last.value)) :
       LET leaf == Leaves(last.value)[i]
           r == read(h, last.s, Colon(last.path, leaf.path), <<>>)
       IN IsScalar(leaf.value) => r.out = "ok" /\ r.ret = leaf.value

\* C5: a write or writeEntries that ends with "Permission denied" leaves
\* every Store, object and array that existed before the call as it was.
C5_NoPartialMutation ==
  (last.op \in {"write", "writeEntries"} /\ last.out = "denied")
  => SubSeq(h, 1, Len(last.pre)) = last.pre

\* C6: reading a path whose first segment is readable and at which nothing
\* is stored returns undefined and does not raise.
C6_AbsenceIsUndefined ==
  (/\ last.op = "read"
   /\ Includes(Governing(last.pre, last.s, LastKeys[1]), "r")
   /\ StoredAt(last.pre, last.s, LastKeys) = Undef)
  => last.out = "ok" /\ last.ret = Undef

\* the producers stored on the way to keys, the one at keys last
ProducersOnPath(hp, s, keys) ==
  LET at == SelectSeq([i \in 1..Len(keys) |-> RawAt(hp, s, SubSeq(keys, 1, i))],
                      LAMBDA e : e.t = "fn")
  IN [i \in 1..Len(at) |-> at[i].v]

\* C7: a completed read of a path at which a producer is stored returns the
\* producer's result, never a callable, after invoking each producer stored
\* on the path exactly once; the entry stays the producer, and a later read
\* invokes it again.
C7_LazyMaterialization ==
  (/\ last.op = "read"
   /\ last.out = "ok"
   /\ RawAt(last.pre, last.s, LastKeys).t = "fn")
  => /\ last.ret = Producers[RawAt(last.pre, last.s, LastKeys).v]
     /\ last.ret.t # "fn"
     /\ last.log = ProducersOnPath(last.pre, last.s, LastKeys)
     /\ last.log[Len(last.log)] = RawAt(last.pre, last.s, LastKeys).v
     /\ RawAt(h, last.s, LastKeys) = RawAt(last.pre, last.s, LastKeys)
     /\ read(h, last.s, last.path, <<>>).log = last.log

\* a read through a child Store that materialised a producer stored there
C7_Witness ==
  /\ last.op = "read"
  /\ last.out = "ok"
  /\ Len(LastKeys) = 2
  /\ CrossesChild(last.pre, last.s, LastKeys)
  /\ RawAt(last.pre, last.s, LastKeys) = Fn(1)
  /\ last.ret = Num(42)

\* C8: a completed write creates, for every intermediate segment that had
\* no value, a child Store iff the segment is "store" and a plain object
\* otherwise, whatever the enclosing container is; and after
\* write("outer:store:inner", 7) the path reads 7.
C8_SentinelSubStore ==
  (last.op = "write" /\ last.out = "ok" /\ IsScalar(last.value))
  => /\ \A i \in 1..(Len(LastKeys) - 1) :
          StoredAt(last.pre, last.s, SubSeq(LastKeys, 1, i)) = Undef
          => LET c == StoredAt(h, last.s, SubSeq(LastKeys, 1, i))
             IN IF LastKeys[i] = "store" THEN IsStore(h, c)
                ELSE c.t = "ref" /\ h[c.v].kind = "obj"
     /\ last.path = P3("outer", "store", "inner")
        => read(h, last.s, last.path, <<>>).ret = last.value

\* C9: writeEntries issues one write per leaf of E (a value that is not a
\* plain nested object), no other write, and afterwards the tree holds each
\* leaf as it is, a Store instance or a producer included.
C9_WriteEntriesLeaves ==
  (last.op = "writeEntries" /\ last.out = "ok")
  => /\ transformEntriesIntoPaths(last.pre, last.value).paths = Leaves(last.value)
     /\ \A i \in 1..Len(Leaves(last.value)) :
          LET leaf == Leaves(last.value)[i]
              full == IF last.path = <<>> THEN leaf.path ELSE Colon(last.path, leaf.path)
          IN RawAt(h, last.s, Split(full)) = leaf.value

\* C10: allowedToRead and allowedToWrite answer from the registry entry of
\* (class of the node, key) when there is one, whatever the defaultPolicy,
\* and from the defaultPolicy otherwise, and never raise; a Store's
\* defaultPolicy is rw until it is assigned.
C10_PermissionResolution ==
  /\ last.op \in {"allowedToRead", "allowedToWrite"}
     => /\ last.out = "ok"
        /\ last.ret = Bool(Governing(last.pre, last.s, LastKeys[1])
                           \in (IF last.op = "allowedToRead" THEN {"r", "rw"}
                                ELSE {"w", "rw"}))
  /\ \A a \in 1..Len(h) :
       h[a].kind = "store"
       => IF a > Len(last.pre) THEN h[a].policy = "rw"
          ELSE IF last.op = "setDefaultPolicy" /\ last.s = a THEN TRUE
          ELSE h[a].policy = last.pre[a].policy

\* a query answered from the registry against a different defaultPolicy
C10_Witness ==
  /\ last.op = "allowedToRead"
  /\ last.pre[last.s].policy = "none"
  /\ <<ClassName[last.pre[last.s].cls], ".", LastKeys[1]>> \in DOMAIN permissions
  /\ last.ret = Bool(TRUE)

\* the mapping a Store node holds now
MappingOf(hp, s) == hp[hp[s].store].map

KeysBelow(hp, val) ==
  IF val.t = "ref" /\ ~IsStore(hp, val) THEN {e.k : e \in Range(hp[val.v].map)} ELSE {}

\* the top-level keys of a written value: those of a non-empty object, none
\* for any other value
KeysOfValue(hp, val) ==
  IF IsObjRef(val) /\ ~IsStore(hp, val) THEN {e.k : e \in Range(Deref(hp, val).map)} ELSE {}

\* a string, number or boolean, or a non-empty plain object
ScalarOrObject(hp, val) ==
  \/ IsScalar(val) /\ val # Null
  \/ IsPlainObject(hp, val) /\ ~isEmptyObject(hp, val)

\* C12: when write(P, V1) has completed and the next call is write(P, V2) on
\* the same node, P permitted and crossing no child Store, V1 and V2 each a
\* string, number, boolean or non-empty plain object, then the second write
\* completes and every key that reads back below P is a key of V2 (none
\* when V2 is a scalar, which is then what P holds).
C12_LastWriteWins ==
  [][ (/\ last.op = "write" /\ last.out = "ok"
       /\ last'.op = "write" /\ last'.s = last.s /\ last'.path = last.path
       /\ ReadWritePath(last.pre, last.s, LastKeys)
       /\ ~CrossesChild(last.pre, last.s, LastKeys)
       /\ ScalarOrObject(last.pre, last.value)
       /\ ScalarOrObject(last'.pre, last'.value))
      => /\ last'.out = "ok"
         /\ KeysBelow(h', StoredAt(h', last.s, LastKeys))
              \subseteq KeysOfValue(h', last'.value)
         /\ IsScalar(last'.value) => StoredAt(h', last.s, LastKeys) = last'.value ]_vars

\* C13: every call read(P), write(P, V), writeEntries(E) or entries() (the
\* paths are non-empty without empty segment, the values scalars, arrays,
\* plain objects, Stores or producers) completes or ends with 'Permission
\* denied'.
C13_OnlyPermissionDenied ==
  last.op \in {"read", "write", "writeEntries", "entries"} => last.out \in {"ok", "denied"}

RECURSIVE Registered(_, _)
\* the permission registered through Restrict for field f of the type c, by
\* c itself or by the nearest type it extends; "undefined" when none is
Registered(c, f) ==
  IF c = 0 THEN "undefined"
  ELSE LET ds == SelectSeq(Decorators \o LateDecorators,
                           LAMBDA d : d.cls = c /\ d.field = f /\ c \in defined)
       IN IF ds # <<>> THEN ds[Len(ds)].p ELSE Registered(Parent[c], f)

\* C14: what allowedToRead(k) and allowedToWrite(k) answer on an instance is
\* decided by the permission registered for k by the instance's own type or
\* a type it extends (its defaultPolicy when there is none), never by the
\* registration of a different type, whatever that type is named.
C14_RegistryKeyedByType ==
  last.op \in {"allowedToRead", "allowedToWrite"} =>
    LET c == last.pre[last.s].cls
        p == IF Registered(c, LastKeys[1]) # "undefined"
             THEN Registered(c, LastKeys[1])
             ELSE last.pre[last.s].policy
    IN last.ret = Bool(Includes(p, IF last.op = "allowedToRead" THEN "r" ELSE "w"))

IsPrefix(a, b) == Len(a) <= Len(b) /\ SubSeq(b, 1, Len(a)) = a

\* every key some object, array or mapping of the heap holds
KeysIn(hp) == UNION {{e.k : e \in Range(hp[a].map)} : a \in DOMAIN hp}

\* the paths of one or two of these keys
ShortPaths(K) == {<<k>> : k \in K} \cup {<<k1, k2>> : k1 \in K, k2 \in K}

\* the places (cell, position) of the mappings, objects and arrays that
\* hold the Store at address a, as it is or as the result of a producer
HoldersOf(hp, a) ==
  UNION { {<<b, i>> : i \in {j \in DOMAIN hp[b].map :
                               Materialized(hp[b].map[j].v) = Ref(a)}} :
          b \in {c \in DOMAIN hp : hp[c].kind # "store"} }

\* the Stores form a tree: none is held at two places
TreeShaped(hp) ==
  \A a \in DOMAIN hp : hp[a].kind = "store" => Cardinality(HoldersOf(hp, a)) <= 1

\* C15: after a completed write(P, V) on a tree of Stores, every path Q of
\* one or two keys that is neither a prefix nor an extension of P holds, on
\* the node the call was issued on, what it held before the call.
C15_WriteFrame ==
  (last.op = "write" /\ last.out = "ok" /\ TreeShaped(last.pre)) =>
    \A Q \in ShortPaths(KeysIn(h) \cup KeysIn(last.pre)) :
      (~IsPrefix(Q, LastKeys) /\ ~IsPrefix(LastKeys, Q))
        => StoredAt(h, last.s, Q) = StoredAt(last.pre, last.s, Q)

\* C16: read(P), allowedToRead(k), allowedToWrite(k) and entries() leave
\* every mapping, object and array as it was, whether the call returns a
\* value, returns undefined or is denied; so does a write that the
\* permission resolution denies.
C16_ReadIsPure ==
  /\ last.op \in {"read", "allowedToRead", "allowedToWrite", "entries"} => h = last.pre
  /\ (/\ last.op = "write"
      /\ getHasPermissionToWriteAt(last.pre, last.s, last.path, <<>>).out = "denied")
     => last.out = "denied" /\ h = last.pre

\* a read through a stored producer into a child Store that returned a
\* value, on a tree that an earlier write has changed
C16_Witness ==
  /\ last.op = "read" /\ last.out = "ok" /\ last.ret # Undef
  /\ last.log # <<>>
  /\ CrossesChild(last.pre, last.s, LastKeys)
  /\ h = last.pre /\ h # Constructed

\* the steps a call on a path of n keys may take: each of the two loops of
\* write reads every proper prefix of the path, a prefix of i keys in at
\* most 5i steps
StepBound(n) == 5 * n * n + n + 5

\* C17 (under SpecSteps, calls followed step by step on trees in which a
\* Store may hold itself or the Store that holds it): a child Store is always
\* handed a single key; never more than three invocations of Store methods
\* are in progress; a call on a path of n keys takes at most StepBound(n)
\* steps; and every call made returns or throws.
C17_Termination ==
  /\ [](\A j \in 2..Len(stack) :
          stack[j - 1].pc \in {"await", "nestAwait", "lastAwait"}
            => Len(getKeysFrom(stack[j].path)) = 1)
  /\ [](Len(stack) <= 3)
  /\ [](steps <= StepBound(Len(LastKeys)))
  /\ (stack # <<>>) ~> (stack = <<>>)

\* read("self:self:self:x") has returned on a root Store that holds itself
C17_Witness ==
  /\ stack = <<>>
  /\ last.op = "read" /\ last.out = "ok"
  /\ LastKeys = <<"self", "self", "self", "x">>
  /\ StoredAt(h, Addr.root, <<"self">>) = Ref(Addr.root)
  /\ steps > Len(LastKeys)

====
